---------------------------- MODULE Spec2Model ----------------------------
(***************************************************************************)
(* A model of dir_cleaner.py (class FileManager): the extension -> category*)
(* lookup, the SQL metadata extraction (comment block, filename ticket,    *)
(* USE statement, current date) and the organize_files loop over a         *)
(* directory.  Strings are sequences of one-character strings, so that     *)
(* lower(), strip(), replace() and the regular expressions are computed    *)
(* character by character as Python computes them.                         *)
(***************************************************************************)
EXTENDS Integers, Sequences, FiniteSets, TLC

VARIABLES
    categories,      \* self.categories: ordered <<name, extensions>> pairs
    file_extension,  \* the argument of a get_category call
    category,        \* what that call returned (<<>> before the call)
    content,         \* the text of the SQL file handed to rename_sql_file
    filename,        \* os.path.basename(file_path) of that file
    today,           \* datetime.now().strftime("%Y-%m-%d")
    metadata,        \* what parse_comment returned
    fields,          \* the ticket, client and date rename_sql_file settled on
    new_filename,    \* f"{ticket}_{client}_{date}.sql"
    parts,           \* the pieces content was put together from (ghost)
    step,            \* how far the call of the function under study has got
    base,            \* regular files directly in base_path: name -> file
    folders,         \* directories in base_path: name -> (name -> file)
    listing,         \* the names os.listdir returned, not yet visited
    pc,              \* where organize_files is
    dry_run,         \* organize_files' dry_run argument
    create_backup,   \* organize_files' create_backup argument
    log,             \* what the current call has logged (info and error)
    start,           \* the files of base_path when the current run began (ghost)
    start_folders,   \* the directories when the current run began (ghost)
    io_failed        \* whether an I/O step has failed in the current run (ghost)

vars == <<categories, file_extension, category, content, filename, today,
          metadata, fields, new_filename, parts, step, base, folders, listing, pc, dry_run,
          create_backup, log, start, start_folders, io_failed>>

catVars == <<file_extension, category>>
sqlVars == <<content, filename, metadata, fields, new_filename, parts>>
fsVars  == <<base, folders, listing, pc, dry_run, create_backup, log,
             start, start_folders, io_failed>>

---------------------------------------------------------------------------
(* Characters and the str methods the program calls.                       *)

UpperChars == <<"A","B","C","D","E","F","G","H","I","J","K","L","M",
                "N","O","P","Q","R","S","T","U","V","W","X","Y","Z">>
LowerChars == <<"a","b","c","d","e","f","g","h","i","j","k","l","m",
                "n","o","p","q","r","s","t","u","v","w","x","y","z">>
DigitChars == <<"0","1","2","3","4","5","6","7","8","9">>
SpaceChars == <<" ", "\n", "\t", "\r">>

Range(s) == {s[i] : i \in DOMAIN s}

UpperSet == Range(UpperChars)
LowerSet == Range(LowerChars)
DigitSet == Range(DigitChars)
SpaceSet == Range(SpaceChars)

IsUpper(c) == c \in UpperSet
IsLower(c) == c \in LowerSet
IsAlpha(c) == IsUpper(c) \/ IsLower(c)
IsDigit(c) == c \in DigitSet
IsSpace(c) == c \in SpaceSet
IsWord(c)  == IsAlpha(c) \/ IsDigit(c) \/ c = "_"

\* the lower-case letter of each upper-case letter, and the reverse
ToLower == [c \in UpperSet |->
              LowerChars[CHOOSE i \in DOMAIN UpperChars : UpperChars[i] = c]]
ToUpper == [c \in LowerSet |->
              UpperChars[CHOOSE i \in DOMAIN LowerChars : LowerChars[i] = c]]

LowerChar(c) == IF IsUpper(c) THEN ToLower[c] ELSE c
UpperChar(c) == IF IsLower(c) THEN ToUpper[c] ELSE c

\* str.lower()
Lower(s) == [i \in DOMAIN s |-> LowerChar(s[i])]
\* str.upper()
Upper(s) == [i \in DOMAIN s |-> UpperChar(s[i])]
\* str.capitalize(): first character upper-cased, the rest lower-cased
Capitalize(s) ==
    [i \in DOMAIN s |-> IF i = 1 THEN UpperChar(s[i]) ELSE LowerChar(s[i])]

Min(S) == CHOOSE x \in S : \A y \in S : x <= y
Max(S) == CHOOSE x \in S : \A y \in S : y <= x

\* s[a..b] (1-based, inclusive); empty when b < a
Slice(s, a, b) == IF b < a THEN <<>> ELSE SubSeq(s, a, b)

\* str.strip(): leading and trailing whitespace removed
Strip(s) ==
    LET keep == {i \in DOMAIN s : ~IsSpace(s[i])}
    IN  IF keep = {} THEN <<>> ELSE Slice(s, Min(keep), Max(keep))

\* str.replace("/", "-")
ReplaceSlash(s) == [i \in DOMAIN s |-> IF s[i] = "/" THEN "-" ELSE s[i]]

\* whether the literal lit stands in s at position p
LitAt(s, p, lit) ==
    /\ p >= 1
    /\ p + Len(lit) - 1 <= Len(s)
    /\ \A k \in 1..Len(lit) : s[p + k - 1] = lit[k]

\* the same, ignoring case (re.IGNORECASE)
LitAtNoCase(s, p, lit) ==
    /\ p >= 1
    /\ p + Len(lit) - 1 <= Len(s)
    /\ \A k \in 1..Len(lit) : LowerChar(s[p + k - 1]) = LowerChar(lit[k])

\* the first position >= p of s that does not satisfy the character class
\* (Len(s) + 1 when every one does): where a greedy \s*, \*+, \d+ ... stops
SkipSpaces(s, p) ==
    Min({j \in p..(Len(s) + 1) : j = Len(s) + 1 \/ ~IsSpace(s[j])})
SkipStars(s, p) ==
    Min({j \in p..(Len(s) + 1) : j = Len(s) + 1 \/ s[j] # "*"})
SkipDigits(s, p) ==
    Min({j \in p..(Len(s) + 1) : j = Len(s) + 1 \/ ~IsDigit(s[j])})
SkipWord(s, p) ==
    Min({j \in p..(Len(s) + 1) : j = Len(s) + 1 \/ ~IsWord(s[j])})
SkipAlpha(s, p) ==
    Min({j \in p..(Len(s) + 1) : j = Len(s) + 1 \/ ~IsAlpha(s[j])})

---------------------------------------------------------------------------
(* The category table and get_category.                                    *)

default_categories == <<
    << <<"a","u","d","i","o">>,
       << <<".","m","p","3">>, <<".","w","a","v">>, <<".","f","l","a","c">>,
          <<".","a","a","c">> >> >>,
    << <<"v","i","d","e","o">>,
       << <<".","m","p","4">>, <<".","m","o","v">>, <<".","a","v","i">>,
          <<".","m","k","v">> >> >>,
    << <<"i","m","a","g","e","s">>,
       << <<".","j","p","g">>, <<".","j","p","e","g">>, <<".","p","n","g">>,
          <<".","g","i","f">>, <<".","b","m","p">>, <<".","t","i","f","f">> >> >>,
    << <<"d","o","c","u","m","e","n","t","s">>,
       << <<".","p","d","f">>, <<".","d","o","c","x">>, <<".","t","x","t">>,
          <<".","x","l","s","x">>, <<".","c","s","v">>, <<".","p","p","t","x">> >> >>,
    << <<"d","a","t","a","b","a","s","e","_","s","c","r","i","p","t","s">>,
       << <<".","s","q","l">> >> >>,
    << <<"p","y","t","h","o","n","_","s","c","r","i","p","t","s">>,
       << <<".","p","y">>, <<".","i","p","y","n","b">> >> >>,
    << <<"c","o","m","p","r","e","s","s","e","d">>,
       << <<".","z","i","p">>, <<".","r","a","r">>, <<".","7","z">>,
          <<".","g","z">> >> >> >>

\* the custom_categories of main()
main_custom_categories == <<
    << <<"d","e","s","i","g","n">>,
       << <<".","p","s","d">>, <<".","a","i">>,
          <<".","s","k","e","t","c","h">> >> >>,
    << <<"w","e","b">>,
       << <<".","h","t","m","l">>, <<".","c","s","s">>, <<".","j","s">> >> >> >>

\* Other custom_categories a caller may pass: extensions stored in upper
\* case, a default category overridden, an extension of a default category
\* claimed again by a later one.
upper_custom_categories == <<
    << <<"D","e","s","i","g","n">>,
       << <<".","P","S","D">>, <<".","A","i">> >> >> >>
override_custom_categories == <<
    << <<"a","u","d","i","o">>,
       << <<".","o","g","g">>, <<".","M","P","3">> >> >> >>
overlap_custom_categories == <<
    << <<"q","u","e","r","i","e","s">>,
       << <<".","s","q","l">>, <<".","h","q","l">> >> >> >>

CustomChoices == {<<>>, main_custom_categories, upper_custom_categories,
                  override_custom_categories, overlap_custom_categories}

Names(table) == {table[i][1] : i \in DOMAIN table}

\* {**default, **custom}: a key of default keeps its place and takes
\* custom's value, the new keys follow in custom's order
MergeDicts(default, custom) ==
    LET over(i) ==
            IF \E j \in DOMAIN custom : custom[j][1] = default[i][1]
            THEN custom[CHOOSE j \in DOMAIN custom :
                            custom[j][1] = default[i][1]]
            ELSE default[i]
        kept  == [i \in DOMAIN default |-> over(i)]
        added == SelectSeq(custom, LAMBDA e : e[1] \notin Names(default))
    IN  kept \o added

\* self.categories as __init__ sets it
InitCategories(custom) ==
    IF custom # <<>> THEN MergeDicts(default_categories, custom)
    ELSE default_categories

Other == <<"O","t","h","e","r">>
Database_scripts ==
    <<"D","a","t","a","b","a","s","e","_","s","c","r","i","p","t","s">>

\* mutant of the loop: no fallback return, the last category is the default
RECURSIVE CategoryFrom_no_fallback(_, _, _)
CategoryFrom_no_fallback(table, ext, i) ==
    IF i >= Len(table) THEN Capitalize(table[Len(table)][1])
    ELSE IF ext \in {Lower(table[i][2][k]) : k \in DOMAIN table[i][2]}
         THEN Capitalize(table[i][1])
         ELSE CategoryFrom_no_fallback(table, ext, i + 1)

\* the loop of get_category from entry i of the table on, ext already
\* lower-cased
RECURSIVE CategoryFrom(_, _, _)
CategoryFrom(table, ext, i) ==
    IF i > Len(table) THEN Other
    ELSE IF ext \in {Lower(table[i][2][k]) : k \in DOMAIN table[i][2]}
         THEN Capitalize(table[i][1])
         ELSE CategoryFrom(table, ext, i + 1)

\* mutant: the extension is looked up as given, not lower-cased
get_category_no_lower(table, ext) == CategoryFrom(table, ext, 1)

get_category(table, ext) == CategoryFrom(table, Lower(ext), 1)

---------------------------------------------------------------------------
(* parse_comment: re.search of                                             *)
(*   /\*\*+\s*Ticket:\s*(.*?);\s*Client:\s*(.*?);\s*Date:\s*(.*?);\s*.*?\*/ *)
(* with re.DOTALL.  The greedy \*+ and \s* run to the first character      *)
(* outside their class (taking fewer never helps: what follows is a        *)
(* literal or a group that accepts anything); each lazy group ends at the  *)
(* first ";" from which the rest of the pattern still matches.             *)

TicketKey == <<"T","i","c","k","e","t",":">>
ClientKey == <<"C","l","i","e","n","t",":">>
DateKey   == <<"D","a","t","e",":">>
CommentEnd == <<"*","/">>

\* \s*.*?\*/ from position p: some "*/" starts at or after p
TailMatches(s, p) == \E k \in p..Len(s) : LitAt(s, k, CommentEnd)

\* where group 3 starts when \s*Date:\s* matches from p (0 when it does not)
DateGroupStart(s, p) ==
    LET q == SkipSpaces(s, p)
    IN  IF LitAt(s, q, DateKey) THEN SkipSpaces(s, q + Len(DateKey)) ELSE 0

\* the ";" that may end group 3, the group starting at g
DateGroupEnds(s, g) ==
    {j \in g..Len(s) : s[j] = ";" /\ TailMatches(s, j + 1)}

\* \s*Date:\s*(.*?);\s*.*?\*/ matches from p
DateMatches(s, p) ==
    LET g == DateGroupStart(s, p)
    IN  g # 0 /\ DateGroupEnds(s, g) # {}

\* where group 2 starts when \s*Client:\s* matches from p (0 when it does not)
ClientGroupStart(s, p) ==
    LET q == SkipSpaces(s, p)
    IN  IF LitAt(s, q, ClientKey) THEN SkipSpaces(s, q + Len(ClientKey)) ELSE 0

ClientGroupEnds(s, g) ==
    {j \in g..Len(s) : s[j] = ";" /\ DateMatches(s, j + 1)}

\* \s*Client:\s*(.*?);\s*Date: ... matches from p
ClientMatches(s, p) ==
    LET g == ClientGroupStart(s, p)
    IN  g # 0 /\ ClientGroupEnds(s, g) # {}

\* where group 1 starts when /\*\*+\s*Ticket:\s* matches from i (0 when not)
TicketGroupStart(s, i) ==
    IF ~LitAt(s, i, <<"/","*","*">>) THEN 0
    ELSE LET q == SkipSpaces(s, SkipStars(s, i + 3))
         IN  IF LitAt(s, q, TicketKey)
             THEN SkipSpaces(s, q + Len(TicketKey)) ELSE 0

TicketGroupEnds(s, g) ==
    {j \in g..Len(s) : s[j] = ";" /\ ClientMatches(s, j + 1)}

\* the whole pattern matches starting at i
CommentMatchesAt(s, i) ==
    LET g == TicketGroupStart(s, i)
    IN  g # 0 /\ TicketGroupEnds(s, g) # {}

NoMetadata == [matched |-> FALSE]

\* mutant: the date keeps its "/" separators
parse_comment_keep_slash(s) ==
    LET starts == {i \in 1..Len(s) : CommentMatchesAt(s, i)}
    IN  IF starts = {} THEN NoMetadata
        ELSE LET g1 == TicketGroupStart(s, Min(starts))
                 e1 == Min(TicketGroupEnds(s, g1))
                 g2 == ClientGroupStart(s, e1 + 1)
                 e2 == Min(ClientGroupEnds(s, g2))
                 g3 == DateGroupStart(s, e2 + 1)
                 e3 == Min(DateGroupEnds(s, g3))
             IN  [matched |-> TRUE,
                  ticket  |-> Strip(Slice(s, g1, e1 - 1)),
                  client  |-> Strip(Slice(s, g2, e2 - 1)),
                  date    |-> Strip(Slice(s, g3, e3 - 1))]

\* re.search takes the leftmost start; the dict of the three groups, or {}
parse_comment(s) ==
    LET starts == {i \in 1..Len(s) : CommentMatchesAt(s, i)}
    IN  IF starts = {} THEN NoMetadata
        ELSE LET g1 == TicketGroupStart(s, Min(starts))
                 e1 == Min(TicketGroupEnds(s, g1))
                 g2 == ClientGroupStart(s, e1 + 1)
                 e2 == Min(ClientGroupEnds(s, g2))
                 g3 == DateGroupStart(s, e2 + 1)
                 e3 == Min(DateGroupEnds(s, g3))
             IN  [matched |-> TRUE,
                  ticket  |-> Strip(Slice(s, g1, e1 - 1)),
                  client  |-> Strip(Slice(s, g2, e2 - 1)),
                  date    |-> ReplaceSlash(Strip(Slice(s, g3, e3 - 1)))]

---------------------------------------------------------------------------
(* parse_use_statement and extract_ticket_from_filename.                   *)

UseKey == <<"U","S","E">>
UnknownClient ==
    <<"U","n","k","n","o","w","n","C","l","i","e","n","t">>
UnknownTicket ==
    <<"U","n","k","n","o","w","n","T","i","c","k","e","t">>

\* USE\s+([a-zA-Z0-9_]+) with re.IGNORECASE matches starting at i
UseMatchesAt(s, i) ==
    /\ LitAtNoCase(s, i, UseKey)
    /\ SkipSpaces(s, i + 3) > i + 3
    /\ SkipWord(s, SkipSpaces(s, i + 3)) > SkipSpaces(s, i + 3)

\* group 1 of the leftmost match
UseIdentifier(s) ==
    LET i == Min({k \in 1..Len(s) : UseMatchesAt(s, k)})
        g == SkipSpaces(s, i + 3)
    IN  Slice(s, g, SkipWord(s, g) - 1)

\* mutant: the identifier is returned whole, digits and underscores kept
parse_use_statement_whole(s) ==
    IF \E k \in 1..Len(s) : UseMatchesAt(s, k)
    THEN UseIdentifier(s)
    ELSE UnknownClient

parse_use_statement(s) ==
    IF \E k \in 1..Len(s) : UseMatchesAt(s, k)
    THEN LET db_name == UseIdentifier(s)
             \* re.match(r"([a-zA-Z]+)", db_name)
             n == SkipAlpha(db_name, 1) - 1
         IN  IF n >= 1 THEN Slice(db_name, 1, n) ELSE db_name
    ELSE UnknownClient

\* mutant: PROV is left out of the alternation
TicketPrefixes_no_prov == {<<"L","B","D","M">>, <<"L","B","I","N">>}

TicketPrefixes == {<<"L","B","D","M">>, <<"L","B","I","N">>,
                   <<"P","R","O","V">>}

\* (LBDM|LBIN|PROV)-\d+ matches starting at i
TicketMatchesAt(s, i) ==
    /\ \E p \in TicketPrefixes : LitAt(s, i, p)
    /\ LitAt(s, i + 4, <<"-">>)
    /\ SkipDigits(s, i + 5) > i + 5

extract_ticket_from_filename(s) ==
    IF \E k \in 1..Len(s) : TicketMatchesAt(s, k)
    THEN LET i == Min({k \in 1..Len(s) : TicketMatchesAt(s, k)})
         IN  Slice(s, i, SkipDigits(s, i + 5) - 1)
    ELSE UnknownTicket

---------------------------------------------------------------------------
(* rename_sql_file, up to the name it builds.                              *)

\* metadata.get(key) or fallback: a missing or an empty value is falsy
GetOr(md, key, fallback) ==
    IF key \in DOMAIN md /\ md[key] # <<>> THEN md[key] ELSE fallback

\* lines 167-173: ticket, client and date
SqlFields(md, text, name, now) ==
    [ticket |-> GetOr(md, "ticket", extract_ticket_from_filename(name)),
     client |-> GetOr(md, "client", parse_use_statement(text)),
     date   |-> GetOr(md, "date", now)]

SqlSuffix == <<".","s","q","l">>

\* line 176
NewFilename(f) == f.ticket \o <<"_">> \o f.client \o <<"_">> \o f.date \o SqlSuffix

---------------------------------------------------------------------------
(* The file system of base_path, as far as organize_files touches it.      *)

EmptyDir == [n \in {} |-> [id |-> 0, content |-> <<>>]]
LogsDir == <<"l","o","g","s">>

\* the state of the directory walker while a pure function is studied
FsIdle ==
    /\ base = EmptyDir
    /\ folders = [n \in {LogsDir} |-> EmptyDir]
    /\ listing = {}
    /\ pc = "idle"
    /\ dry_run = FALSE
    /\ create_backup = FALSE
    /\ log = <<>>
    /\ start = EmptyDir
    /\ start_folders = [n \in {LogsDir} |-> EmptyDir]
    /\ io_failed = FALSE

NoFields == [ticket |-> <<>>, client |-> <<>>, date |-> <<>>]

---------------------------------------------------------------------------
(* get_category applied to one extension under one category table.        *)

\* the extensions get_category is called with: "" ".mp3" ".MP3" ".Mp3" ".psd" ".PSD" ".sql" ".SQL" ".ogg"
\* ".hql" ".xyz" "." ".JPeG" ".7Z" ".ai" ".Js" "mp3" ".tar"
ExtensionChoices == {
    <<>>,
    <<".","m","p","3">>,
    <<".","M","P","3">>,
    <<".","M","p","3">>,
    <<".","p","s","d">>,
    <<".","P","S","D">>,
    <<".","s","q","l">>,
    <<".","S","Q","L">>,
    <<".","o","g","g">>,
    <<".","h","q","l">>,
    <<".","x","y","z">>,
    <<".">>,
    <<".","J","P","e","G">>,
    <<".","7","Z">>,
    <<".","a","i">>,
    <<".","J","s">>,
    <<"m","p","3">>,
    <<".","t","a","r">>}

CatIdle ==
    /\ file_extension = <<>>
    /\ category = <<>>

SqlIdle ==
    /\ content = <<>>
    /\ filename = <<>>
    /\ metadata = NoMetadata
    /\ fields = NoFields
    /\ new_filename = <<>>
    /\ parts = [comment |-> FALSE]

InitCategory ==
    /\ categories \in {InitCategories(c) : c \in CustomChoices}
    /\ file_extension \in ExtensionChoices
    /\ category = <<>>
    /\ step = "input"
    /\ today = <<>>
    /\ SqlIdle
    /\ FsIdle

GetCategory ==
    /\ step = "input"
    /\ category' = get_category(categories, file_extension)
    /\ step' = "returned"
    /\ UNCHANGED <<categories, file_extension, today, sqlVars, fsVars>>

NextCategory == GetCategory

SpecCategory == InitCategory /\ [][NextCategory]_vars

---------------------------------------------------------------------------
(* rename_sql_file's name for one file: parse_comment, then the fallbacks. *)

\* nothing before the comment
PreNone ==
    <<>>

\* an ordinary comment first: "/* v1 */"
PrePlainComment ==
    <<"/","*"," ","v","1"," ","*","/","\n">>

\* comment openings: "/** ", "/****" and a newline, "/* "
OpenTwoStars ==
    <<"/","*","*"," ">>

OpenManyStars ==
    <<"/","*","*","*","*","\n">>

OpenOneStar ==
    <<"/","*"," ">>

\* Ticket: 'LBDM-100'  Client: 'Acme'  Date: '2024/01/05'
FieldsPlain ==
    [ticket |-> <<"L","B","D","M","-","1","0","0">>,
     client |-> <<"A","c","m","e">>,
     date |-> <<"2","0","2","4","/","0","1","/","0","5">>]

\* Ticket: ' PROV-7  '  Client: '\tBeta Corp '  Date: '  2024-01-05 '
FieldsPadded ==
    [ticket |-> <<" ","P","R","O","V","-","7"," "," ">>,
     client |-> <<"\t","B","e","t","a"," ","C","o","r","p"," ">>,
     date |-> <<" "," ","2","0","2","4","-","0","1","-","0","5"," ">>]

\* Ticket: ''  Client: 'Acme'  Date: '2024/01/05'
FieldsNoTicket ==
    [ticket |-> <<>>,
     client |-> <<"A","c","m","e">>,
     date |-> <<"2","0","2","4","/","0","1","/","0","5">>]

\* Ticket: 'LBDM-100'  Client: ' '  Date: '05/01/2024'
FieldsBlankClient ==
    [ticket |-> <<"L","B","D","M","-","1","0","0">>,
     client |-> <<" ">>,
     date |-> <<"0","5","/","0","1","/","2","0","2","4">>]

\* Ticket: 'LBIN-3'  Client: 'Acme'  Date: ''
FieldsNoDate ==
    [ticket |-> <<"L","B","I","N","-","3">>,
     client |-> <<"A","c","m","e">>,
     date |-> <<>>]

\* Ticket: ''  Client: ' '  Date: ''
FieldsAllEmpty ==
    [ticket |-> <<>>,
     client |-> <<" ">>,
     date |-> <<>>]

\* Ticket: '../X'  Client: 'Acme'  Date: '2024/01/05'
FieldsDotDot ==
    [ticket |-> <<".",".","/","X">>,
     client |-> <<"A","c","m","e">>,
     date |-> <<"2","0","2","4","/","0","1","/","0","5">>]

FieldChoices == {FieldsPlain, FieldsPadded, FieldsNoTicket, FieldsBlankClient, FieldsNoDate, FieldsAllEmpty, FieldsDotDot}

\* nothing after the comment
PostNone ==
    <<>>

\* "USE AcmeProd123;" and a statement
PostUseAcme ==
    <<"\n","U","S","E"," ","A","c","m","e","P","r","o","d","1","2","3",";",
      "\n","S","E","L","E","C","T"," ","1",";">>

\* "use  9lives;": the identifier starts with a digit
PostUseDigit ==
    <<"\n","u","s","e"," "," ","9","l","i","v","e","s",";">>

\* "Use _tmp": the identifier starts with an underscore
PostUseUnderscore ==
    <<"\n","U","s","e"," ","_","t","m","p","\n">>

\* a statement and a later ordinary comment
PostStatementComment ==
    <<"\n","S","E","L","E","C","T"," ","1",";"," ","/","*"," ","d","o","n",
      "e"," ","*","/">>

\* a second, well-formed metadata comment
PostSecondBlock ==
    <<"\n","/","*","*"," ","T","i","c","k","e","t",":"," ","L","B","I","N",
      "-","9",";"," ","C","l","i","e","n","t",":"," ","Z","e","t","a",";",
      " ","D","a","t","e",":"," ","2","0","2","3","/","1","2","/","3","1",
      ";"," ","*","/">>

\* two USE statements
PostTwoUse ==
    <<"\n","U","S","E"," ","T","e","s","t","2","C","l","i","e","n","t",";",
      " ","U","S","E"," ","M","a","i","n",";">>

PostChoices == {PostNone, PostUseAcme, PostUseDigit, PostUseUnderscore, PostStatementComment, PostSecondBlock, PostTwoUse}

\* "report_PROV-42_final.sql"
NameProv ==
    <<"r","e","p","o","r","t","_","P","R","O","V","-","4","2","_","f","i",
      "n","a","l",".","s","q","l">>

\* "lbdm-7.sql"
NameLowerCase ==
    <<"l","b","d","m","-","7",".","s","q","l">>

\* "xLBDM-12LBIN-3.SQL"
NameTwoTokens ==
    <<"x","L","B","D","M","-","1","2","L","B","I","N","-","3",".","S","Q",
      "L">>

\* "notes.sql"
NameNoToken ==
    <<"n","o","t","e","s",".","s","q","l">>

\* "PROV-_LBIN.sql"
NameNoDigits ==
    <<"P","R","O","V","-","_","L","B","I","N",".","s","q","l">>

FilenameChoices == {NameProv, NameLowerCase, NameTwoTokens, NameNoToken, NameNoDigits}

Date1 ==
    <<"2","0","2","6","-","1","1","-","0","4">>

Date2 ==
    <<"2","0","2","7","-","0","1","-","3","1">>

DateChoices == {Date1, Date2}

\* the text of a file from its pieces
Content(p) ==
    IF p.comment
    THEN p.pre \o p.open \o TicketKey \o <<" ">> \o p.fields.ticket \o <<";">>
         \o <<" ">> \o ClientKey \o <<" ">> \o p.fields.client \o <<";", "\n">>
         \o DateKey \o <<" ">> \o p.fields.date \o p.semi \o <<" ", "*", "/">>
         \o p.post
    ELSE p.pre \o p.post

SqlInputs ==
    {[comment |-> TRUE, pre |-> pre, open |-> open, fields |-> f,
      semi |-> semi, post |-> post] :
        pre \in {PreNone, PrePlainComment},
        open \in {OpenTwoStars, OpenManyStars, OpenOneStar},
        f \in FieldChoices, semi \in {<<";">>, <<>>}, post \in PostChoices}
    \cup
    {[comment |-> FALSE, pre |-> pre, open |-> <<>>, fields |-> NoFields,
      semi |-> <<>>, post |-> post] :
        pre \in {PreNone, PrePlainComment}, post \in PostChoices}

InitSql ==
    /\ parts \in SqlInputs
    /\ content = Content(parts)
    /\ filename \in FilenameChoices
    /\ today \in DateChoices
    /\ metadata = NoMetadata
    /\ fields = NoFields
    /\ new_filename = <<>>
    /\ step = "input"
    /\ categories = default_categories
    /\ CatIdle
    /\ FsIdle

\* line 164
ParseComment ==
    /\ step = "input"
    /\ metadata' = parse_comment(content)
    /\ step' = "parsed"
    /\ UNCHANGED <<categories, catVars, content, filename, today, fields,
                   new_filename, parts, fsVars>>

\* lines 167-177
BuildName ==
    /\ step = "parsed"
    /\ fields' = SqlFields(metadata, content, filename, today)
    /\ new_filename' = NewFilename(fields')
    /\ step' = "named"
    /\ UNCHANGED <<categories, catVars, content, filename, today, metadata,
                   parts, fsVars>>

NextSql == ParseComment \/ BuildName

SpecSql == InitSql /\ [][NextSql]_vars

---------------------------------------------------------------------------
(* organize_files over the directory base_path.  A directory is a function *)
(* from the names of the regular files in it to the files; the category    *)
(* folders, logs and the backups are the directories of base_path.  A file *)
(* carries an id (ghost) that tells it from another file of equal content. *)

\* at most MaxFiles regular files lie in base_path at first; a call may
\* ask for a backup while fewer than MaxBackups backups exist
MaxFiles == 2
MaxBackups == 1

\* "a.TXT" holding "x"
FileText ==
    [name |-> <<"a",".","T","X","T">>,
     id |-> 1,
     content |->
        <<"x">>]

\* "Other" holding "z"
FileNamedOther ==
    [name |-> <<"O","t","h","e","r">>,
     id |-> 2,
     content |->
        <<"z">>]

\* "q1.sql" holding "SELECT 1;"
FileQuery1 ==
    [name |-> <<"q","1",".","s","q","l">>,
     id |-> 3,
     content |->
        <<"S","E","L","E","C","T"," ","1",";">>]

\* "q2.sql" holding "SELECT 2;"
FileQuery2 ==
    [name |-> <<"q","2",".","s","q","l">>,
     id |-> 4,
     content |->
        <<"S","E","L","E","C","T"," ","2",";">>]

\* "t.sql" holding "/** Ticket: ../X; Client: B; Date: 2024/01/05; */"
FileDotDot ==
    [name |-> <<"t",".","s","q","l">>,
     id |-> 5,
     content |->
        <<"/","*","*"," ","T","i","c","k","e","t",":"," ",".",".","/","X",
          ";"," ","C","l","i","e","n","t",":"," ","B",";"," ","D","a","t",
          "e",":"," ","2","0","2","4","/","0","1","/","0","5",";"," ","*",
          "/">>]

FileChoices == {FileText, FileNamedOther, FileQuery1, FileQuery2, FileDotDot}

\* a file left in Documents by an earlier run, named like FileText
FilePrior ==
    [name |-> <<"a",".","T","X","T">>, id |-> 9, content |-> <<"o","l","d">>]
Documents == <<"D","o","c","u","m","e","n","t","s">>

\* the directory holding the files of the set fs (of distinct names)
DirOf(fs) ==
    [n \in {f.name : f \in fs} |->
        LET f == CHOOSE g \in fs : g.name = n
        IN  [id |-> f.id, content |-> f.content]]

Ids(dir) == {dir[n].id : n \in DOMAIN dir}

\* os.path.splitext(filename)[1]: from the last dot on, unless only dots
\* come before it
Splitext(name) ==
    LET dots == {i \in DOMAIN name : name[i] = "."}
    IN  IF dots = {} THEN <<>>
        ELSE IF \E k \in 1..(Max(dots) - 1) : name[k] # "."
             THEN Slice(name, Max(dots), Len(name))
             ELSE <<>>

\* lines 209-210
CategoryOf(name) == get_category(categories, Lower(Splitext(name)))

\* mutant: the dry_run argument is not looked at
DryRun_ignored(flag) == FALSE

\* line 216
DryRun(flag) == flag

\* os.makedirs(destination_folder, exist_ok=True) when it succeeds
Makedirs(dirs, cat) ==
    IF cat \in DOMAIN dirs THEN dirs
    ELSE [d \in DOMAIN dirs \cup {cat} |->
            IF d = cat THEN EmptyDir ELSE dirs[d]]

\* mutant: a file already at the destination is kept
PutFile_keep_existing(dir, name, file) ==
    [n \in DOMAIN dir \cup {name} |-> IF n \in DOMAIN dir THEN dir[n] ELSE file]

\* the rename at the end of shutil.move: a file at the destination is
\* replaced
PutFile(dir, name, file) ==
    [n \in DOMAIN dir \cup {name} |-> IF n = name THEN file ELSE dir[n]]

RemoveFile(dir, name) == [n \in DOMAIN dir \ {name} |-> dir[n]]

HasSlash(s) == \E i \in DOMAIN s : s[i] = "/"

BasePath == <<>>

\* where os.path.join(destination_folder, name) lies: in the category
\* folder for a plain name, in base_path for "../" and a plain name; for
\* any other name with a "/" the directory does not exist and the move
\* fails
Resolve(cat, name) ==
    IF ~HasSlash(name) THEN [ok |-> TRUE, dir |-> cat, name |-> name]
    ELSE IF /\ LitAt(name, 1, <<".",".","/">>)
            /\ Len(name) > 3
            /\ ~HasSlash(Slice(name, 4, Len(name)))
         THEN [ok |-> TRUE, dir |-> BasePath,
               name |-> Slice(name, 4, Len(name))]
         ELSE [ok |-> FALSE, dir |-> cat, name |-> name]

\* lines 164-176 for the file called name
SqlName(text, name) ==
    NewFilename(SqlFields(parse_comment(text), text, name, today))

\* backup_<timestamp>: the k-th backup's name
BackupPrefix == <<"b","a","c","k","u","p","_">>
BackupName(k) == BackupPrefix \o <<DigitChars[k + 1]>>
Backups(dirs) == {d \in DOMAIN dirs : LitAt(d, 1, BackupPrefix)}
NextBackup(dirs) == BackupName(Cardinality(Backups(dirs)) + 1)

\* shutil.copytree for the regular files of base_path (ids are not copied)
CopyOf(dir) == [n \in DOMAIN dir |-> [id |-> 0, content |-> dir[n].content]]

\* a record of logging.info or logging.error about the file called name:
\* the message, where the file went (dir, to) and the file's id (ghost)
LogEntry(msg, name, dir, to, id) ==
    [msg |-> msg, name |-> name, dir |-> dir, to |-> to, id |-> id]

InitOrganize ==
    /\ categories = InitCategories(main_custom_categories)
    /\ today = Date1
    /\ \E fs \in SUBSET FileChoices :
          /\ Cardinality(fs) <= MaxFiles
          /\ base = DirOf(fs)
    /\ folders \in {[n \in {LogsDir} |-> EmptyDir],
                    [n \in {LogsDir, Documents} |->
                        IF n = Documents THEN DirOf({FilePrior})
                        ELSE EmptyDir]}
    /\ listing = {}
    /\ pc = "idle"
    /\ dry_run = FALSE
    /\ create_backup = FALSE
    /\ log = <<>>
    /\ start = base
    /\ start_folders = folders
    /\ io_failed = FALSE
    /\ step = "input"
    /\ CatIdle
    /\ SqlIdle

Returned == pc \in {"idle", "done", "raised", "backup_raised"}

\* lines 195-201: the backup when asked for, then os.listdir
StartRun(dr, cb) ==
    /\ Returned
    /\ cb => Cardinality(Backups(folders)) < MaxBackups
    /\ dry_run' = dr
    /\ create_backup' = cb
    /\ start' = base
    /\ start_folders' = folders
    /\ io_failed' = FALSE
    /\ folders' = IF cb
                  THEN [d \in DOMAIN folders \cup {NextBackup(folders)} |->
                          IF d = NextBackup(folders) THEN CopyOf(base)
                          ELSE folders[d]]
                  ELSE folders
    /\ log' = IF cb
              THEN <<LogEntry("Created backup", <<>>, BasePath,
                              NextBackup(folders), 0)>>
              ELSE <<>>
    /\ listing' = DOMAIN base \cup DOMAIN folders'
    /\ pc' = "loop"
    /\ UNCHANGED <<categories, today, step, catVars, sqlVars, base>>

\* line 197: shutil.copytree raises, and organize_files with it
BackupRaises(dr) ==
    /\ Returned
    /\ dry_run' = dr
    /\ create_backup' = TRUE
    /\ start' = base
    /\ start_folders' = folders
    /\ io_failed' = TRUE
    /\ listing' = {}
    /\ log' = <<>>
    /\ pc' = "backup_raised"
    /\ UNCHANGED <<categories, today, step, catVars, sqlVars, base, folders>>

\* lines 205-206: the iterations over directories.  They change nothing,
\* whatever their place in os.listdir's order, and are taken together.
VisitDirectories ==
    /\ pc = "loop"
    /\ listing \cap DOMAIN folders # {}
    /\ listing' = listing \ DOMAIN folders
    /\ UNCHANGED <<categories, today, step, catVars, sqlVars, base, folders,
                   pc, dry_run, create_backup, log, start,
                   start_folders, io_failed>>

\* a regular file is next
VisitFile(n) ==
    /\ pc = "loop"
    /\ n \in listing
    /\ n \in DOMAIN base
    /\ listing \cap DOMAIN folders = {}

\* lines 216-218
DryRunFile(n) ==
    /\ VisitFile(n)
    /\ DryRun(dry_run)
    /\ listing' = listing \ {n}
    /\ log' = Append(log, LogEntry("Would move", n, BasePath,
                                   CategoryOf(n), base[n].id))
    /\ UNCHANGED <<categories, today, step, catVars, sqlVars, base, folders,
                   pc, dry_run, create_backup, start, start_folders,
                   io_failed>>

\* line 221 raises: a regular file has the folder's name, or the folder
\* cannot be created; nothing catches it
MakedirsRaises(n) ==
    /\ VisitFile(n)
    /\ ~DryRun(dry_run)
    /\ CategoryOf(n) \notin DOMAIN folders
    /\ pc' = "raised"
    /\ io_failed' = TRUE
    /\ UNCHANGED <<categories, today, step, catVars, sqlVars, base, folders,
                   listing, dry_run, create_backup, log, start,
                   start_folders>>

\* line 221 succeeds (no regular file has the folder's name), lines 229-230
MoveFile(n) ==
    /\ VisitFile(n)
    /\ ~DryRun(dry_run)
    /\ LET cat == CategoryOf(n)
           dirs == Makedirs(folders, cat)
       IN  /\ cat \notin DOMAIN base
           /\ cat # Database_scripts
           /\ folders' = [dirs EXCEPT ![cat] = PutFile(dirs[cat], n, base[n])]
           /\ log' = Append(log, LogEntry("Moved", n, cat, n, base[n].id))
    /\ base' = RemoveFile(base, n)
    /\ listing' = listing \ {n}
    /\ UNCHANGED <<categories, today, step, catVars, sqlVars, pc, dry_run,
                   create_backup, start, start_folders, io_failed>>

\* line 229 raises, lines 231-232 log it
MoveFails(n) ==
    /\ VisitFile(n)
    /\ ~DryRun(dry_run)
    /\ LET cat == CategoryOf(n)
       IN  /\ cat \notin DOMAIN base
           /\ cat # Database_scripts
           /\ folders' = Makedirs(folders, cat)
    /\ log' = Append(log, LogEntry("Error processing", n, BasePath, <<>>,
                                   base[n].id))
    /\ io_failed' = TRUE
    /\ listing' = listing \ {n}
    /\ UNCHANGED <<categories, today, step, catVars, sqlVars, base, pc,
                   dry_run, create_backup, start, start_folders>>

\* rename_sql_file, lines 160-181
RenameSqlFile(n) ==
    /\ VisitFile(n)
    /\ ~DryRun(dry_run)
    /\ LET cat == CategoryOf(n)
           dirs == Makedirs(folders, cat)
           dst == Resolve(cat, SqlName(base[n].content, n))
       IN  /\ cat \notin DOMAIN base
           /\ cat = Database_scripts
           /\ dst.ok
           /\ IF dst.dir = BasePath
              THEN /\ base' = PutFile(RemoveFile(base, n), dst.name, base[n])
                   /\ folders' = dirs
              ELSE /\ base' = RemoveFile(base, n)
                   /\ folders' = [dirs EXCEPT ![dst.dir] =
                                     PutFile(dirs[dst.dir], dst.name, base[n])]
           /\ log' = Append(log, LogEntry("Renamed", n, dst.dir, dst.name,
                                          base[n].id))
    /\ listing' = listing \ {n}
    /\ UNCHANGED <<categories, today, step, catVars, sqlVars, pc, dry_run,
                   create_backup, start, start_folders, io_failed>>

\* open, read or shutil.move raises in rename_sql_file, lines 183-184 log it
RenameSqlFails(n) ==
    /\ VisitFile(n)
    /\ ~DryRun(dry_run)
    /\ LET cat == CategoryOf(n)
       IN  /\ cat \notin DOMAIN base
           /\ cat = Database_scripts
           /\ folders' = Makedirs(folders, cat)
    /\ log' = Append(log, LogEntry("Error renaming", n, BasePath, <<>>,
                                   base[n].id))
    /\ io_failed' = TRUE
    /\ listing' = listing \ {n}
    /\ UNCHANGED <<categories, today, step, catVars, sqlVars, base, pc,
                   dry_run, create_backup, start, start_folders>>

\* the for loop of line 201 is exhausted: organize_files returns
Return ==
    /\ pc = "loop"
    /\ listing = {}
    /\ pc' = "done"
    /\ UNCHANGED <<categories, today, step, catVars, sqlVars, base, folders,
                   listing, dry_run, create_backup, log, start,
                   start_folders, io_failed>>

Next ==
    \/ \E dr \in BOOLEAN, cb \in BOOLEAN : StartRun(dr, cb)
    \/ \E dr \in BOOLEAN : BackupRaises(dr)
    \/ VisitDirectories
    \/ \E n \in listing : DryRunFile(n)
    \/ \E n \in listing : MakedirsRaises(n)
    \/ \E n \in listing : MoveFile(n)
    \/ \E n \in listing : MoveFails(n)
    \/ \E n \in listing : RenameSqlFile(n)
    \/ \E n \in listing : RenameSqlFails(n)
    \/ Return

Spec == InitOrganize /\ [][Next]_vars

---------------------------------------------------------------------------
(* Properties of get_category, checked under SpecCategory.                 *)

\* C1: get_category always returns a category name - the capitalized name
\* of a table entry or "Other" - and returns exactly "Other" whenever the
\* lower-cased extension is in no category's extension set (the stored
\* extensions compared lower-cased, as line 92 compares them), the empty
\* extension of a file without suffix included.
C1_TotalWithOtherFallback ==
    step = "returned" =>
        /\ category \in {Capitalize(n) : n \in Names(categories)} \cup {Other}
        /\ (\A i \in DOMAIN categories : \A k \in DOMAIN categories[i][2] :
                Lower(categories[i][2][k]) # Lower(file_extension))
            => category = Other
        /\ (/\ \A i \in DOMAIN categories : \A k \in DOMAIN categories[i][2] :
                    categories[i][2][k] = Lower(categories[i][2][k])
            /\ \A i \in DOMAIN categories :
                    Lower(file_extension) \notin Range(categories[i][2]))
            => category = Other

\* C1 witness: a file without suffix has been categorized as "Other"
C1_Witness ==
    step = "returned" /\ file_extension = <<>> /\ category = Other

---------------------------------------------------------------------------
(* Properties of the SQL name, checked under SpecSql.                      *)

\* the first comment of the text is a metadata block with its three ";"
WellFormed(p) ==
    p.comment /\ p.open \in {OpenTwoStars, OpenManyStars} /\ p.semi = <<";">>

\* the first comment opens with "/**" and has no ";" after its Date value
Malformed(p) ==
    p.comment /\ p.open \in {OpenTwoStars, OpenManyStars} /\ p.semi = <<>>

\* the identifier of the first USE statement the text was built with
\* (<<>> when it was built with none)
UseIdentifierOf(p) ==
    CASE p.post = PostUseAcme -> <<"A","c","m","e","P","r","o","d","1","2","3">>
      [] p.post = PostUseDigit -> <<"9","l","i","v","e","s">>
      [] p.post = PostUseUnderscore -> <<"_","t","m","p">>
      [] p.post = PostTwoUse -> <<"T","e","s","t","2","C","l","i","e","n","t">>
      [] OTHER -> <<>>

\* x is the maximal leading run of letters of s
IsLeadingLetters(x, s) ==
    /\ Len(x) <= Len(s)
    /\ \A k \in 1..Len(x) : x[k] = s[k] /\ IsAlpha(x[k])
    /\ Len(x) = Len(s) \/ ~IsAlpha(s[Len(x) + 1])

\* t is LBDM-, LBIN- or PROV- followed by one or more digits
IsTicketToken(t) ==
    /\ Len(t) >= 6
    /\ SubSeq(t, 1, 4) \in {<<"L","B","D","M">>, <<"L","B","I","N">>,
                            <<"P","R","O","V">>}
    /\ t[5] = "-"
    /\ \A k \in 6..Len(t) : IsDigit(t[k])

\* where the substrings of that form lie in s
TokensIn(s) ==
    {ij \in (1..Len(s)) \X (1..Len(s)) :
        ij[1] <= ij[2] /\ IsTicketToken(SubSeq(s, ij[1], ij[2]))}

\* C2 as claimed: with a well-formed metadata block the ticket, client and
\* date of the new name are the captured fields trimmed (the date with "/"
\* replaced by "-"), an empty or blank field included.
C2_CommentFieldsAlwaysUsed ==
    (step = "named" /\ WellFormed(parts)) =>
        /\ fields.ticket = Strip(parts.fields.ticket)
        /\ fields.client = Strip(parts.fields.client)
        /\ fields.date = ReplaceSlash(Strip(parts.fields.date))

\* C2 amended: with a well-formed metadata block, each of ticket, client
\* and date is the captured field trimmed (the date with "/" replaced by
\* "-") when that is not empty, whatever the filename and any USE
\* statement; a field that is empty after trimming counts as absent and
\* takes its fallback (filename token, USE statement, current date).
C2_CommentFieldsUsedWhenNotEmpty ==
    (step = "named" /\ WellFormed(parts)) =>
        LET t == Strip(parts.fields.ticket)
            c == Strip(parts.fields.client)
            d == ReplaceSlash(Strip(parts.fields.date))
        IN  /\ metadata = [matched |-> TRUE, ticket |-> t, client |-> c,
                           date |-> d]
            /\ fields.ticket = IF t # <<>> THEN t
                               ELSE extract_ticket_from_filename(filename)
            /\ fields.client = IF c # <<>> THEN c
                               ELSE parse_use_statement(content)
            /\ fields.date = IF d # <<>> THEN d ELSE today
            /\ new_filename = fields.ticket \o <<"_">> \o fields.client
                              \o <<"_">> \o fields.date \o <<".","s","q","l">>

\* C2 witness: a block with a "/"-separated date won over a filename token
\* and a USE statement
C2_Witness ==
    /\ step = "named"
    /\ WellFormed(parts)
    /\ parts.fields = FieldsPadded
    /\ parts.post = PostUseAcme
    /\ filename = NameTwoTokens
    /\ fields.ticket = <<"P","R","O","V","-","7">>
    /\ fields.date = <<"2","0","2","4","-","0","1","-","0","5">>

\* C3: a comment that opens with "/**" and has no ";" after its Date value
\* never matches: parse_comment returns no fields and ticket, client and
\* date come from the fallbacks, whatever follows the comment.
C3_MalformedNeverMatches ==
    (step # "input" /\ Malformed(parts)) =>
        /\ metadata = NoMetadata
        /\ step = "named" =>
              /\ fields.ticket = extract_ticket_from_filename(filename)
              /\ fields.client = parse_use_statement(content)
              /\ fields.date = today

\* the comment parse gave no client / no ticket to rename_sql_file
NoClientFromComment == ~metadata.matched \/ metadata.client = <<>>
NoTicketFromComment == ~metadata.matched \/ metadata.ticket = <<>>

\* C4 as claimed: without a client from the comment, the client is the
\* maximal leading run of letters of the first USE identifier - not empty,
\* letters only - for every identifier; "UnknownClient" without a USE.
C4_ClientIsLettersOnly ==
    (step = "named" /\ NoClientFromComment) =>
        IF UseIdentifierOf(parts) = <<>>
        THEN fields.client = UnknownClient
        ELSE /\ fields.client # <<>>
             /\ IsLeadingLetters(fields.client, UseIdentifierOf(parts))

\* C4 amended: without a client from the comment, the client is the maximal
\* leading run of letters of the first USE identifier when the identifier
\* begins with a letter (not empty, letters only, a prefix: AcmeProd123
\* gives AcmeProd), the whole identifier unchanged when it begins with a
\* digit or an underscore, and "UnknownClient" without a USE statement.
C4_ClientLeadingLettersOrWhole ==
    (step = "named" /\ NoClientFromComment) =>
        LET id == UseIdentifierOf(parts)
        IN  IF id = <<>> THEN fields.client = UnknownClient
            ELSE IF IsAlpha(id[1])
                 THEN /\ fields.client # <<>>
                      /\ IsLeadingLetters(fields.client, id)
                 ELSE fields.client = id

\* C4 witness: "USE AcmeProd123" gave the client AcmeProd
C4_Witness ==
    /\ step = "named"
    /\ NoClientFromComment
    /\ parts.post = PostUseAcme
    /\ fields.client = <<"A","c","m","e","P","r","o","d">>

\* C5: without a ticket from the comment, the ticket is the leftmost
\* substring of the filename of the form LBDM-, LBIN- or PROV- and digits
\* (all the digits that follow, case as written), and "UnknownTicket"
\* exactly when there is none; without comment, token and USE statement
\* the result is UnknownTicket, UnknownClient and the current date.
C5_TicketFromFilename ==
    (step = "named" /\ NoTicketFromComment) =>
        LET toks == TokensIn(filename)
        IN  /\ (fields.ticket = UnknownTicket) <=> (toks = {})
            /\ toks # {} =>
                  \E ij \in toks :
                      /\ fields.ticket = SubSeq(filename, ij[1], ij[2])
                      /\ \A uv \in toks :
                             /\ ij[1] <= uv[1]
                             /\ uv[1] = ij[1] => uv[2] <= ij[2]
            /\ (~parts.comment /\ toks = {} /\ UseIdentifierOf(parts) = <<>>)
                  => fields = [ticket |-> UnknownTicket,
                               client |-> UnknownClient, date |-> today]

\* C5 witness: report_PROV-42_final.sql without a metadata block
C5_Witness ==
    /\ step = "named"
    /\ ~metadata.matched
    /\ filename = NameProv
    /\ fields.ticket = <<"P","R","O","V","-","4","2">>

---------------------------------------------------------------------------
(* Properties of organize_files, checked under Spec.                       *)

\* the i-th record of the log tells of a file moved or renamed
IsMove(i) == log[i].msg \in {"Moved", "Renamed"}

\* the directory a log record names
DirAt(d) == IF d = BasePath THEN base ELSE folders[d]

\* C7: a failing I/O step for one file (reading it, creating its
\* destination folder, moving or renaming it) is caught and logged and the
\* loop goes on: organize_files never ends with an exception raised while
\* one file is processed, and a call that returns has handled every file.
C7_OneBadFileDoesNotAbort ==
    /\ pc # "raised"
    /\ (pc = "done" /\ ~dry_run) =>
          \A n \in DOMAIN start : \E i \in DOMAIN log : log[i].name = n

\* C8: during and after organize_files(dry_run=True), with or without
\* create_backup, the regular files of base_path are the files that were
\* there before the call (same names, same content), every directory holds
\* what it held, the only directory that may be new is the backup, and each
\* file's category is only logged.
C8_DryRunMovesNothing ==
    (dry_run /\ pc \in {"loop", "done", "backup_raised"}) =>
        /\ base = start
        /\ \A d \in DOMAIN start_folders :
              d \in DOMAIN folders /\ folders[d] = start_folders[d]
        /\ \A d \in DOMAIN folders \ DOMAIN start_folders :
              create_backup /\ d \in Backups(folders)
        /\ \A i \in DOMAIN log :
              \/ log[i].msg = "Created backup"
              \/ /\ log[i].msg = "Would move"
                 /\ log[i].name \in DOMAIN base
                 /\ log[i].to = CategoryOf(log[i].name)
        /\ pc = "done" =>
              \A n \in DOMAIN base : \E i \in DOMAIN log : log[i].name = n

\* C8 witness: a dry run with a backup has returned after listing two files
C8_Witness ==
    /\ pc = "done"
    /\ dry_run
    /\ create_backup
    /\ Cardinality(DOMAIN base) = 2
    /\ Len(log) = 3
    /\ log[3].msg = "Would move"

\* C9: after a non-dry-run organize_files in which no I/O step fails, no
\* regular file remains directly in base_path (so a second run has nothing
\* to move); every file that was there is in the folder of its category,
\* under its own name unless it is a Database_scripts file, which is there
\* as {ticket}_{client}_{date}.sql; and the directories still hold what
\* they held.
C9_EveryFilePlaced ==
    (pc = "done" /\ ~dry_run /\ ~io_failed) =>
        /\ base = EmptyDir
        /\ \A n \in DOMAIN start :
              LET cat == CategoryOf(n)
                  dst == IF cat = Database_scripts
                         THEN SqlName(start[n].content, n) ELSE n
              IN  /\ cat \in DOMAIN folders
                  /\ dst \in DOMAIN folders[cat]
                  /\ folders[cat][dst] = start[n]
        /\ \A d \in DOMAIN start_folders :
              /\ d \in DOMAIN folders
              /\ DOMAIN start_folders[d] \subseteq DOMAIN folders[d]

\* C10: name collisions are last write wins.  A move is made whether or
\* not a file is at its destination: the destination of every move of the
\* current call holds the file of the last move made to it, and a file that
\* was moved there earlier in the call, or lay there when the call began,
\* is nowhere in that category folder any more.
C10_LastWriteWins ==
    \A i \in DOMAIN log :
        IsMove(i) =>
            LET e == log[i]
                later == {j \in DOMAIN log :
                            /\ j > i
                            /\ IsMove(j)
                            /\ log[j].dir = e.dir
                            /\ log[j].to = e.to
                            /\ log[j].id # e.id}
            IN  /\ later = {} =>
                      /\ e.to \in DOMAIN DirAt(e.dir)
                      /\ DirAt(e.dir)[e.to].id = e.id
                /\ later # {} => e.id \notin Ids(DirAt(e.dir))
                /\ (/\ e.dir \in DOMAIN start_folders
                    /\ e.to \in DOMAIN start_folders[e.dir]) =>
                      start_folders[e.dir][e.to].id \notin Ids(folders[e.dir])

\* C10 witness: two files of one call were renamed to the same name and
\* the folder holds the one renamed last
C10_Witness ==
    /\ pc = "done"
    /\ \E i, j \in DOMAIN log :
          /\ i < j
          /\ IsMove(i) /\ IsMove(j)
          /\ log[i].dir = Database_scripts
          /\ log[j].dir = Database_scripts
          /\ log[i].to = log[j].to
          /\ log[i].id # log[j].id
          /\ folders[Database_scripts][log[j].to].id = log[j].id
          /\ Cardinality(DOMAIN folders[Database_scripts]) = 1

=============================================================================
